---- MODULE Spec2Model ----
(***************************************************************************)
(* Model of generate_ical.py: the opening-hours resolution function        *)
(* get_opening_hours (a pure function of a pool's business hours, a date   *)
(* and the process locale) and the enumeration loop of create_calendar.    *)
(*                                                                         *)
(* Dates are day numbers; day 0 is a Monday.  Times of day are minutes     *)
(* after midnight.  A JSON field that is not a well-formed value is one of *)
(* the three negative codes Missing, Null and Bad.                         *)
(***************************************************************************)
EXTENDS Integers, Sequences, FiniteSets, TLC

VARIABLES
    pools,           \* create_calendar: the list returned by response.json()
    today,           \* create_calendar: date.today()
    locale,          \* LC_TIME of the process, read by strftime('%a')
    pc,              \* position in create_calendar / in the resolver harness
    p,               \* index of the pool the outer loop is at (1-based)
    i,               \* day offset the inner loop is at
    events,          \* components added to cal, in order
    skipped,         \* (pool, offset) items reported by the warning branch
    exc,             \* exception that left create_calendar, or "none"
    business_hours,  \* get_opening_hours: pool['businesshours']
    target_date,     \* get_opening_hours: target_date
    result           \* get_opening_hours: what the call produced

vars == <<pools, today, locale, pc, p, i, events, skipped, exc,
          business_hours, target_date, result>>

----------------------------------------------------------------------------
(* Bounds of the model *)

MaxHoliday == 2      \* longest holiday_bhpool list enumerated
MaxRegular == 1      \* longest usually_bhpool list enumerated
MaxDate    == 3      \* target dates 0..MaxDate are resolved
MaxPools   == 2      \* longest pool list enumerated

----------------------------------------------------------------------------
(* JSON values *)

Missing == -1        \* the key is not in the dict: d['k'] raises KeyError
Null    == -2        \* the value is null / not a string: fromisoformat raises TypeError
Bad     == -3        \* a non-empty string that is not ISO: fromisoformat raises ValueError

DAYS_TO_GENERATE == 14

Locales == {"C", "de_DE"}

\* The weekday keys of the source data, Monday first ('mo', 'di', etc.)
CanonicalKeys == <<"mo", "di", "mi", "do", "fr", "sa", "so">>

KeySet == {CanonicalKeys[k] : k \in 1..7}

\* date.weekday(): 0 is Monday
Weekday(d) == d % 7

\* strftime('%a') of the weekday under the locale, after [:2].lower()
AbbreviatedDay(loc, wd) ==
    IF loc = "de_DE"
    THEN <<"mo", "di", "mi", "do", "fr", "sa", "so">>[wd + 1]
    ELSE <<"mo", "tu", "we", "th", "fr", "sa", "su">>[wd + 1]

day_of_week_str(loc, d) == AbbreviatedDay(loc, Weekday(d))

----------------------------------------------------------------------------
(* Rule entries and day windows *)

AbsentWindow == [shape |-> "absent", from |-> Missing, to |-> Missing]

Window(f, t) == [shape |-> "dict", from |-> f, to |-> t]

\* an entry that carries the same window w under every weekday key
Entry(vshape, f, t, closed, w) ==
    [vshape |-> vshape, from |-> f, to |-> t, closed |-> closed,
     days |-> [k \in KeySet |-> w]]

\* entry['validity']['from'] and ['to'] through date.fromisoformat, in the
\* order the code evaluates them: the first failure is the outcome
ValidityOutcome(entry) ==
    IF entry.vshape = "missing" THEN "KeyError"
    ELSE IF entry.vshape = "null" THEN "TypeError"
    ELSE IF entry.from = Missing THEN "KeyError"
    ELSE IF entry.from = Null THEN "TypeError"
    ELSE IF entry.from = Bad THEN "ValueError"
    ELSE IF entry.to = Missing THEN "KeyError"
    ELSE IF entry.to = Null THEN "TypeError"
    ELSE IF entry.to = Bad THEN "ValueError"
    ELSE "ok"

\* except (ValueError, TypeError): continue
Caught(e) == e \in {"ValueError", "TypeError"}

\* valid_from <= target_date <= valid_to
InRange(entry, d) == entry.from <= d /\ d <= entry.to

\* entry.get(day_of_week_str)
DayHours(entry, key) ==
    IF key \in DOMAIN entry.days THEN entry.days[key] ELSE AbsentWindow

\* day_hours and day_hours.get('from')
HasOpenTime(w) == w.shape = "dict" /\ w.from # Missing /\ w.from # Null

----------------------------------------------------------------------------
(* Results of get_opening_hours.  tier and idx record where the function   *)
(* returned: the tier and the position of the entry it was at, or          *)
(* "none" and 0 when it ran off the end of both lists.                     *)

ReturnNone(tier, idx) ==
    [kind |-> "None", from |-> 0, to |-> 0, tier |-> tier, idx |-> idx]

ReturnHours(f, t, tier, idx) ==
    [kind |-> "hours", from |-> f, to |-> t, tier |-> tier, idx |-> idx]

Raise(tier, idx) ==
    [kind |-> "KeyError", from |-> 0, to |-> 0, tier |-> tier, idx |-> idx]

\* what the caller sees
Out(r) == [kind |-> r.kind, from |-> r.from, to |-> r.to]

\* return day_hours['from'], day_hours['to']
ReturnWindow(w, tier, idx) ==
    IF w.to = Missing THEN Raise(tier, idx)
    ELSE ReturnHours(w.from, w.to, tier, idx)

\* regular tier, lines 60-64
RegularEntry(entry, key, idx) ==
    LET day_hours == DayHours(entry, key) IN
    IF HasOpenTime(day_hours)
    THEN ReturnWindow(day_hours, "regular", idx)
    ELSE ReturnNone("regular", idx)

RECURSIVE ScanRegular(_, _, _, _)
ScanRegular(regular_hours, idx, d, key) ==
    IF idx > Len(regular_hours) THEN ReturnNone("none", 0)
    ELSE LET entry == regular_hours[idx]
             o     == ValidityOutcome(entry) IN
         IF o = "ok"
         THEN IF InRange(entry, d)
              THEN RegularEntry(entry, key, idx)
              ELSE ScanRegular(regular_hours, idx + 1, d, key)
         ELSE IF Caught(o)
              THEN ScanRegular(regular_hours, idx + 1, d, key)
              ELSE Raise("regular", idx)

\* line 47 returning what the regular tier says instead of None
HolidayFallsBack(idx, regular_result) == regular_result

\* line 47: an applying holiday entry without hours for the day is closed;
\* regular_result is what the regular tier would have said
HolidayWithoutHours(idx, regular_result) == ReturnNone("holiday", idx)

\* lines 38-40 run before the closed flag is looked at
HolidayHoursBeforeClosed(entry, key, idx, regular_result) ==
    LET day_hours == DayHours(entry, key) IN
    IF HasOpenTime(day_hours) THEN ReturnWindow(day_hours, "holiday", idx)
    ELSE IF entry.closed THEN ReturnNone("holiday", idx)
    ELSE HolidayWithoutHours(idx, regular_result)

\* holiday tier, lines 31-47
HolidayEntry(entry, key, idx, regular_result) ==
    IF entry.closed THEN ReturnNone("holiday", idx)
    ELSE LET day_hours == DayHours(entry, key) IN
         IF HasOpenTime(day_hours)
         THEN ReturnWindow(day_hours, "holiday", idx)
         ELSE HolidayWithoutHours(idx, regular_result)

RECURSIVE ScanHoliday(_, _, _, _, _)
ScanHoliday(holiday_hours, regular_hours, idx, d, key) ==
    IF idx > Len(holiday_hours) THEN ScanRegular(regular_hours, 1, d, key)
    ELSE LET entry == holiday_hours[idx]
             o     == ValidityOutcome(entry) IN
         IF o = "ok"
         THEN IF InRange(entry, d)
              THEN HolidayEntry(entry, key, idx,
                                ScanRegular(regular_hours, 1, d, key))
              ELSE ScanHoliday(holiday_hours, regular_hours, idx + 1, d, key)
         ELSE IF Caught(o)
              THEN ScanHoliday(holiday_hours, regular_hours, idx + 1, d, key)
              ELSE Raise("holiday", idx)

\* the two tiers consulted in the wrong order: a matching regular entry wins
regular_before_holiday(bh, d, loc) ==
    LET r == ScanRegular(bh.usually_bhpool, 1, d, day_of_week_str(loc, d)) IN
    IF r.tier = "none"
    THEN ScanHoliday(bh.holiday_bhpool, <<>>, 1, d, day_of_week_str(loc, d))
    ELSE r

get_opening_hours(bh, d, loc) ==
    ScanHoliday(bh.holiday_bhpool, bh.usually_bhpool, 1, d,
                day_of_week_str(loc, d))

NoResult == [kind |-> "pending", from |-> 0, to |-> 0, tier |-> "none", idx |-> 0]

NoBusinessHours == [holiday_bhpool |-> <<>>, usually_bhpool |-> <<>>]

----------------------------------------------------------------------------
(* Inputs of the resolver *)

\* holiday windows 10:00-14:00, regular windows 06:00-22:00
HolidayWindows == {AbsentWindow, Window(600, 840), Window(Null, 840)}

HolidayEntries ==
    {Entry("missing", Missing, Missing, TRUE, AbsentWindow),
     Entry("dict", Bad, 2, TRUE, AbsentWindow)}
    \cup {Entry("dict", 1, 2, c, w) : c \in BOOLEAN, w \in HolidayWindows}

RegularWindows ==
    {AbsentWindow, Window(360, 1320), Window(360, Missing), Window(480, Null)}

RegularEntries ==
    {Entry("dict", 0, Missing, FALSE, Window(360, 1320)),
     Entry("null", Missing, Missing, FALSE, Window(360, 1320))}
    \cup {Entry("dict", 0, 2, FALSE, w) : w \in RegularWindows}

SeqsUpTo(S, n) == UNION {[1..k -> S] : k \in 0..n}

HolidayLists == SeqsUpTo(HolidayEntries, MaxHoliday)

RegularLists == SeqsUpTo(RegularEntries, MaxRegular)

TargetDates == 0..MaxDate

----------------------------------------------------------------------------
(* The resolver on its own: one call of get_opening_hours on inputs drawn  *)
(* from the sets above.                                                    *)

InitResolve ==
    /\ business_hours \in [holiday_bhpool : HolidayLists,
                           usually_bhpool : RegularLists]
    /\ target_date \in TargetDates
    /\ locale \in Locales
    /\ result = NoResult
    /\ pc = "call"
    /\ pools = <<>>
    /\ today = 0
    /\ p = 0
    /\ i = 0
    /\ events = <<>>
    /\ skipped = <<>>
    /\ exc = "none"

Resolve ==
    /\ pc = "call"
    /\ result' = get_opening_hours(business_hours, target_date, locale)
    /\ pc' = "returned"
    /\ UNCHANGED <<pools, today, locale, p, i, events, skipped, exc,
                   business_hours, target_date>>

NextResolve == Resolve

SpecResolve == InitResolve /\ [][NextResolve]_vars

----------------------------------------------------------------------------
(* Vocabulary of the resolver claims *)

\* the canonical key of the date's weekday
CanonicalKey(d) == CanonicalKeys[Weekday(d) + 1]

\* the entry has a parsable validity range and the range contains the date
WellFormedMatch(entry, d) == ValidityOutcome(entry) = "ok" /\ InRange(entry, d)

Matching(rules, d) == {k \in 1..Len(rules) : WellFormedMatch(rules[k], d)}

\* position of the first well-formed matching entry, 0 if there is none
FirstMatch(rules, d) ==
    IF Matching(rules, d) = {} THEN 0
    ELSE CHOOSE k \in Matching(rules, d) : \A j \in Matching(rules, d) : k <= j

WellFormed(entry) == ValidityOutcome(entry) = "ok"

WithoutMalformed(bh) ==
    [holiday_bhpool |-> SelectSeq(bh.holiday_bhpool, WellFormed),
     usually_bhpool |-> SelectSeq(bh.usually_bhpool, WellFormed)]

Returned == pc = "returned"

\* position of the entry at which the range test of line 30 succeeds: the
\* first well-formed entry containing the date, when the loop gets that far
\* (no entry before it lacks a validity key); 0 if there is none
Applicable(rules, d) ==
    LET k == FirstMatch(rules, d) IN
    IF k > 0 /\ \A j \in 1..(k - 1) : ValidityOutcome(rules[j]) # "KeyError"
    THEN k ELSE 0

\* the call has returned and a holiday entry applied to the date
HolidayApplied ==
    /\ Returned
    /\ Applicable(business_hours.holiday_bhpool, target_date) > 0

AppliedHoliday ==
    business_hours.holiday_bhpool[
        Applicable(business_hours.holiday_bhpool, target_date)]

\* what the regular tier alone says for the date
RegularAlone ==
    ScanRegular(business_hours.usually_bhpool, 1, target_date,
                day_of_week_str(locale, target_date))

----------------------------------------------------------------------------
\* C1: when some holiday entry's validity range contains the date, the
\* result is the same for every regular list put in place of the record's.
C1_OverridePrecedence ==
    (Returned /\ Matching(business_hours.holiday_bhpool, target_date) # {})
    => \A r \in RegularLists :
          Out(get_opening_hours(
                [holiday_bhpool |-> business_hours.holiday_bhpool,
                 usually_bhpool |-> r], target_date, locale)) = Out(result)

\* a holiday entry applies and yields Closed while the regular tier alone
\* would have yielded hours
C1_Witness ==
    /\ HolidayApplied
    /\ result.kind = "None"
    /\ RegularAlone.kind = "hours"

C4_RegularTier ==
    Returned =>
    LET r == FirstMatch(business_hours.usually_bhpool, target_date)
        w == DayHours(business_hours.usually_bhpool[r], CanonicalKey(target_date))
    IN  Matching(business_hours.holiday_bhpool, target_date) = {} =>
        IF r > 0 /\ HasOpenTime(w)
        THEN Out(result) = [kind |-> "hours", from |-> w.from, to |-> w.to]
        ELSE result.kind = "None"

\* C5: an entry with a malformed validity range is skipped: the call gives
\* what it gives on the lists with the malformed entries removed, and so
\* never raises because of one.
C5_MalformedSkipped ==
    Returned =>
    Out(result) = Out(get_opening_hours(WithoutMalformed(business_hours),
                                        target_date, locale))

\* C6: the key the lookup uses is the canonical key of the date's weekday,
\* and the result is the same under every locale.
C6_LocaleIndependent ==
    Returned =>
    /\ day_of_week_str(locale, target_date) = CanonicalKey(target_date)
    /\ \A l \in Locales :
          Out(get_opening_hours(business_hours, target_date, l)) = Out(result)

\* C9: within a tier the first well-formed entry whose range contains the
\* date decides the result: the holiday tier's if it has one, else the
\* regular tier's.
C9_FirstMatchWins ==
    Returned =>
    LET h   == FirstMatch(business_hours.holiday_bhpool, target_date)
        r   == FirstMatch(business_hours.usually_bhpool, target_date)
        key == day_of_week_str(locale, target_date)
    IN  /\ h > 0 =>
             Out(result) = Out(HolidayEntry(business_hours.holiday_bhpool[h],
                                            key, h, NoResult))
        /\ (h = 0 /\ r > 0) =>
             Out(result) = Out(RegularEntry(business_hours.usually_bhpool[r],
                                            key, r))

----------------------------------------------------------------------------
(* create_calendar: time-of-day parsing and the Europe/Berlin zone *)

MinutesPerDay == 1440

\* Europe/Berlin: clocks go from 02:00 to 03:00 on the last Sunday of March
\* and from 03:00 back to 02:00 on the last Sunday of October, 30 weeks on
SpringForwardDay == 6

FallBackDay == 216

\* time.fromisoformat(v)
TimeOutcome(v) ==
    IF v = Null THEN "TypeError"
    ELSE IF v = Bad THEN "ValueError"
    ELSE "ok"

\* start_time then end_time, lines 119-120: the first failure is the outcome
TimesOutcome(start_str, end_str) ==
    IF TimeOutcome(start_str) # "ok" THEN TimeOutcome(start_str)
    ELSE TimeOutcome(end_str)

\* the UTC offset, in minutes, that TIMEZONE.localize attaches to the wall
\* time (is_dst=False): a time skipped by the spring change keeps the winter
\* offset, a time repeated by the autumn change takes the winter offset
UtcOffset(day, minute) ==
    IF day < SpringForwardDay THEN 60
    ELSE IF day = SpringForwardDay THEN (IF minute < 180 THEN 60 ELSE 120)
    ELSE IF day < FallBackDay THEN 120
    ELSE IF day = FallBackDay THEN (IF minute < 120 THEN 120 ELSE 60)
    ELSE 60

\* TIMEZONE.localize(datetime.combine(current_date, t))
Localize(day, minute) ==
    [day |-> day, minute |-> minute, utcoffset |-> UtcOffset(day, minute)]

\* the instant an aware datetime denotes, in minutes
Instant(dt) == dt.day * MinutesPerDay + dt.minute - dt.utcoffset

\* dt + timedelta(days=1): wall-clock arithmetic, the tzinfo is kept
PlusOneDay(dt) == [dt EXCEPT !.day = @ + 1]

\* lines 127-128
Rollover(dt_start, dt_end) ==
    IF Instant(dt_end) <= Instant(dt_start) THEN PlusOneDay(dt_end) ELSE dt_end

\* today + timedelta(days=i)
CurrentDate(t, offset) == t + offset

\* the component is put in front of the ones already there
add_component_first(components, event) == <<event>> \o components

\* cal.add_component(event)
add_component(components, event) == Append(components, event)

\* lines 119-137 for parsable times
MakeEvent(pool_index, offset, current_date, start_time, end_time) ==
    LET dt_start == Localize(current_date, start_time)
        dt_end   == Localize(current_date, end_time) IN
    [pool |-> pool_index, offset |-> offset, date |-> current_date,
     open |-> start_time, close |-> end_time,
     dtstart |-> dt_start, dtend |-> Rollover(dt_start, dt_end)]

\* dt_end - dt_start of an event, in minutes
Duration(event) == Instant(event.dtend) - Instant(event.dtstart)

----------------------------------------------------------------------------
(* Inputs of create_calendar *)

Pool(type, has_name, has_id, bh) ==
    [type |-> type, name |-> has_name, id |-> has_id, businesshours |-> bh]

\* a regular entry valid on every day of the model with window w on every weekday
Always(w) == Entry("dict", 0, FallBackDay + 2 * DAYS_TO_GENERATE, FALSE, w)

Usually(w) == [holiday_bhpool |-> <<>>, usually_bhpool |-> <<Always(w)>>]

CalendarWindows ==
    {Window(480, 1200),     \* 08:00-20:00
     Window(1380, 60),      \* 23:00-01:00
     Window(600, 600),      \* 10:00-10:00
     Window(120, 180),      \* 02:00-03:00
     Window(1410, 0),       \* 23:30-00:00
     Window(480, Bad),      \* unparsable close time
     Window(480, Null)}     \* null close time

PoolKinds ==
    {Pool("Hallenbad", TRUE, TRUE, Usually(w)) : w \in CalendarWindows}
    \cup {Pool("Freibad", TRUE, TRUE, Usually(Window(480, 1200))),
          Pool("Hallenbad", FALSE, TRUE, Usually(Window(480, 1200))),
          Pool("Hallenbad", TRUE, FALSE, Usually(Window(480, 1200))),
          Pool("Hallenbad", TRUE, TRUE,
               [holiday_bhpool |-> <<Entry("missing", Missing, Missing, TRUE,
                                           AbsentWindow)>>,
                usually_bhpool |-> <<Always(Window(480, 1200))>>])}

PoolLists == SeqsUpTo(PoolKinds, MaxPools)

\* a window holding the spring change, one with no change, one holding the
\* autumn change
Todays == {SpringForwardDay - 6, SpringForwardDay + 1, FallBackDay - 6}

----------------------------------------------------------------------------
(* create_calendar *)

Init ==
    /\ pools = <<>>
    /\ today = 0
    /\ locale \in Locales
    /\ pc = "fetch"
    /\ p = 0
    /\ i = 0
    /\ events = <<>>
    /\ skipped = <<>>
    /\ exc = "none"
    /\ business_hours = NoBusinessHours
    /\ target_date = 0
    /\ result = NoResult

ResolverIdle == UNCHANGED <<business_hours, target_date, result>>

\* lines 75-94: the facility list is obtained
Fetch ==
    /\ pc = "fetch"
    /\ \E ps \in PoolLists, t \in Todays :
          /\ pools' = ps
          /\ today' = t
    /\ pc' = "pool"
    /\ p' = 1
    /\ UNCHANGED <<locale, i, events, skipped, exc>>
    /\ ResolverIdle

\* lines 79-84: sys.exit(1)
FetchFails ==
    /\ pc = "fetch"
    /\ pc' = "exit"
    /\ UNCHANGED <<pools, today, locale, p, i, events, skipped, exc>>
    /\ ResolverIdle

\* lines 98-104
Filtered(pool) == pool.type # "Hallenbad" \/ ~pool.name

\* lines 96-104: continue
SkipPool ==
    /\ pc = "pool"
    /\ p <= Len(pools)
    /\ Filtered(pools[p])
    /\ p' = p + 1
    /\ UNCHANGED <<pools, today, locale, pc, i, events, skipped, exc>>
    /\ ResolverIdle

\* lines 106-112
EnterPool ==
    /\ pc = "pool"
    /\ p <= Len(pools)
    /\ ~Filtered(pools[p])
    /\ pc' = "day"
    /\ i' = 0
    /\ UNCHANGED <<pools, today, locale, p, events, skipped, exc>>
    /\ ResolverIdle

\* line 114
Hours == get_opening_hours(pools[p].businesshours, CurrentDate(today, i), locale)

AtDay == pc = "day" /\ i < DAYS_TO_GENERATE

\* get_opening_hours raises: nothing in create_calendar catches it
DayResolverRaises ==
    /\ AtDay
    /\ Hours.kind = "KeyError"
    /\ pc' = "aborted"
    /\ exc' = "KeyError"
    /\ UNCHANGED <<pools, today, locale, p, i, events, skipped>>
    /\ ResolverIdle

\* line 116: hours is None
DayClosed ==
    /\ AtDay
    /\ Hours.kind = "None"
    /\ i' = i + 1
    /\ UNCHANGED <<pools, today, locale, pc, p, events, skipped, exc>>
    /\ ResolverIdle

\* lines 139-140: the day is reported and skipped
DayInvalidTime ==
    /\ AtDay
    /\ Hours.kind = "hours"
    /\ TimesOutcome(Hours.from, Hours.to) = "ValueError"
    /\ skipped' = Append(skipped, <<p, i>>)
    /\ i' = i + 1
    /\ UNCHANGED <<pools, today, locale, pc, p, events, exc>>
    /\ ResolverIdle

\* lines 119-120: TypeError is not a ValueError
DayTimeTypeError ==
    /\ AtDay
    /\ Hours.kind = "hours"
    /\ TimesOutcome(Hours.from, Hours.to) = "TypeError"
    /\ pc' = "aborted"
    /\ exc' = "TypeError"
    /\ UNCHANGED <<pools, today, locale, p, i, events, skipped>>
    /\ ResolverIdle

\* line 136: pool['id'] of a pool without id
DayMissingId ==
    /\ AtDay
    /\ Hours.kind = "hours"
    /\ TimesOutcome(Hours.from, Hours.to) = "ok"
    /\ ~pools[p].id
    /\ pc' = "aborted"
    /\ exc' = "KeyError"
    /\ UNCHANGED <<pools, today, locale, p, i, events, skipped>>
    /\ ResolverIdle

\* lines 119-137
DayEvent ==
    /\ AtDay
    /\ Hours.kind = "hours"
    /\ TimesOutcome(Hours.from, Hours.to) = "ok"
    /\ pools[p].id
    /\ events' = add_component(events,
                    MakeEvent(p, i, CurrentDate(today, i), Hours.from, Hours.to))
    /\ i' = i + 1
    /\ UNCHANGED <<pools, today, locale, pc, p, skipped, exc>>
    /\ ResolverIdle

\* the inner loop is exhausted
EndPool ==
    /\ pc = "day"
    /\ i = DAYS_TO_GENERATE
    /\ pc' = "pool"
    /\ p' = p + 1
    /\ UNCHANGED <<pools, today, locale, i, events, skipped, exc>>
    /\ ResolverIdle

\* the outer loop is exhausted
EndPools ==
    /\ pc = "pool"
    /\ p > Len(pools)
    /\ pc' = "write"
    /\ UNCHANGED <<pools, today, locale, p, i, events, skipped, exc>>
    /\ ResolverIdle

\* lines 143-146
WriteFile ==
    /\ pc = "write"
    /\ pc' = "done"
    /\ UNCHANGED <<pools, today, locale, p, i, events, skipped, exc>>
    /\ ResolverIdle

\* lines 147-149
WriteFails ==
    /\ pc = "write"
    /\ pc' = "exit"
    /\ UNCHANGED <<pools, today, locale, p, i, events, skipped, exc>>
    /\ ResolverIdle

Next ==
    \/ Fetch
    \/ FetchFails
    \/ SkipPool
    \/ EnterPool
    \/ DayResolverRaises
    \/ DayClosed
    \/ DayInvalidTime
    \/ DayTimeTypeError
    \/ DayMissingId
    \/ DayEvent
    \/ EndPool
    \/ EndPools
    \/ WriteFile
    \/ WriteFails

Spec == Init /\ [][Next]_vars

----------------------------------------------------------------------------
\* C7: once the facility list is obtained, no defect of a single day or
\* rule entry ends the run: no exception leaves the enumeration loop.
C7_NeverAborts == pc # "aborted" /\ exc = "none"

\* C8: the events are in facility-major order of the pool list and, within
\* a pool, in strictly ascending day offset; every event's offset is in
\* [0, DAYS_TO_GENERATE) and its date is today plus that offset.
C8_EnumeratorOrdering ==
    /\ \A j, k \in 1..Len(events) :
          j < k => \/ events[j].pool < events[k].pool
                   \/ /\ events[j].pool = events[k].pool
                      /\ events[j].offset < events[k].offset
    /\ \A k \in 1..Len(events) :
          /\ events[k].pool \in 1..Len(pools)
          /\ events[k].offset \in 0..(DAYS_TO_GENERATE - 1)
          /\ events[k].date = today + events[k].offset
          /\ events[k].dtstart.day = events[k].date

\* the run reached the output step with events of two pools, several of them
\* for the same pool
C8_Witness ==
    /\ pc = "write"
    /\ \E j, k \in 1..Len(events) : events[j].pool # events[k].pool
    /\ \E j, k \in 1..Len(events) :
          j # k /\ events[j].pool = events[k].pool

\* C10: every event starts on its date; a close time before the open time
\* puts the end on the following day and a close time after the open time on
\* the same day; the duration is positive and at most 24 hours.
C10_Rollover ==
    \A k \in 1..Len(events) :
       LET e == events[k] IN
       /\ e.dtstart.day = e.date
       /\ e.close < e.open => e.dtend.day = e.date + 1
       /\ e.close > e.open => e.dtend.day = e.date
       /\ Duration(e) > 0
       /\ Duration(e) <= MinutesPerDay

====
